---- MODULE Spec2Model ----
(***************************************************************************)
(* ParkBench backend: the A2A session store (table a2a_sessions) and the   *)
(* handlers that create, read, update and terminate sessions, over the     *)
(* agent directory (table agents).                                         *)
(*                                                                         *)
(* Spec      one server process: uvicorn runs every "async def" handler,   *)
(*           which never awaits, from start to end on its event loop.      *)
(* SpecConc  several server processes on the same database: a handler's    *)
(*           SELECT and its COMMIT are separate steps of its own database  *)
(*           session (get_db opens one per request).                       *)
(***************************************************************************)
EXTENDS Integers, Sequences, FiniteSets, TLC

VARIABLES
    agents,        \* table agents, rows in insertion order
    a2a_sessions,  \* table a2a_sessions, rows in insertion order
    now,           \* the clock read by datetime.utcnow() and by func.now()
    response,      \* the last response a handler returned
    nreq,          \* number of requests accepted so far
    issued,        \* the ids and tokens successful initiations returned, in order
    txn,           \* SpecConc: per worker, the open database session
    conc,          \* SpecConc: per session id, the calls that overlap
    agent_db_internal,  \* src/main.py: the dictionary of registered agents
    requests,      \* RateLimiter.requests: per identifier, the recorded times
    coroutines     \* per task, the rate_limit_middleware call that is running

\* the state outside the database
apart == <<agent_db_internal, requests, coroutines>>

vars == <<agents, a2a_sessions, now, response, nreq, issued, txn, conc,
          agent_db_internal, requests, coroutines>>

-----------------------------------------------------------------------------
(* Bounds of the model. *)

MaxUuid == 1         \* uuid4() draws from 0..MaxUuid
MaxTime == 1         \* the clock runs from 0 to MaxTime
MaxRequests == 3     \* requests handled in one behaviour
MaxFree == 2         \* agents of any kind in a directory, next to the block
MaxFill == 10        \* agents in the block of alike agents of a directory
MaxStored == 3       \* sessions in a store that is listed
MaxLimit == 2        \* requests an identifier may make in one window
Window == 1          \* the window of the rate limiter, in ticks of the clock
MaxCalls == 4        \* calls of rate_limit_middleware in one behaviour

-----------------------------------------------------------------------------
(* Strings that the code inspects character by character are sequences of  *)
(* one-character strings.                                                  *)

LowerChar(c) ==
    CASE c = "T" -> "t"
      [] c = "R" -> "r"
      [] c = "S" -> "s"
      [] c = "U" -> "u"
      [] c = "M" -> "m"
      [] OTHER -> c

\* str.lower()
lower(s) == [i \in DOMAIN s |-> LowerChar(s[i])]

\* sub in s   (substring test on str)
contains(sub, s) ==
    \E i \in 0..(Len(s) - Len(sub)) : SubSeq(s, i + 1, i + Len(sub)) = sub

supports_task_exact(requested, supported_tasks) ==
    \E k \in DOMAIN supported_tasks : contains(requested, supported_tasks[k])

\* any(requested.lower() in task.lower() for task in supported_tasks)
supports_task(requested, supported_tasks) ==
    \E k \in DOMAIN supported_tasks :
        contains(lower(requested), lower(supported_tasks[k]))

-----------------------------------------------------------------------------
(* UUIDs.  A uuid is a small number; its two text forms are its two         *)
(* hexadecimal digits without and with the separating dash.                 *)

HexDigits == <<"0", "1", "2", "3", "4", "5", "6", "7",
               "8", "9", "a", "b", "c", "d", "e", "f">>

Uuids == 0..MaxUuid

ValueError == -1

\* every value of two hexadecimal digits
UuidValues == 0..(Len(HexDigits) * Len(HexDigits) - 1)

\* the text forms of every uuid, computed once
UuidHex == [u \in UuidValues |->
              HexDigits[(u \div 16) + 1] \o HexDigits[(u % 16) + 1]]
UuidStr == [u \in UuidValues |->
              HexDigits[(u \div 16) + 1] \o "-" \o HexDigits[(u % 16) + 1]]

\* uuid.UUID.hex
hex(u) == UuidHex[u]

\* str(uuid.UUID)
str(u) == UuidStr[u]

\* the session_id path parameters the clients send
SessionIdInputs == {str(u) : u \in Uuids} \cup {hex(0), "not-a-uuid"}

\* uuid.UUID(s) of every such text, computed once: both text forms parse,
\* anything else raises
UuidParsed ==
    [s \in SessionIdInputs |->
        IF \E u \in Uuids : s \in {str(u), hex(u)}
        THEN CHOOSE u \in Uuids : s \in {str(u), hex(u)}
        ELSE ValueError]

\* uuid.UUID(session_id)
UUID(s) == UuidParsed[s]

-----------------------------------------------------------------------------
(* enum SessionStatus: member names and their values. *)

SessionStatusMembers == {"ACTIVE", "COMPLETED", "FAILED", "TERMINATED"}

\* SessionStatus.<member>.value
value(member) ==
    CASE member = "ACTIVE" -> "active"
      [] member = "COMPLETED" -> "completed"
      [] member = "FAILED" -> "failed"
      [] member = "TERMINATED" -> "terminated"

\* SessionStatus(v): lookup by value, raises ValueError for an unknown one
SessionStatus(v) ==
    IF \E m \in SessionStatusMembers : value(m) = v
    THEN CHOOSE m \in SessionStatusMembers : value(m) = v
    ELSE "ValueError"

valid_statuses_with_terminated == {"active", "completed", "failed", "terminated"}

\* update_session: valid_statuses = ["active", "completed", "failed"]
valid_statuses == {"active", "completed", "failed"}

\* the status strings the clients send
StatusInputs == {"active", "completed", "failed", "terminated", "paused"}

-----------------------------------------------------------------------------
(* JSON objects (the context column) are sets of <<key, value>> pairs with  *)
(* one pair per key.                                                        *)

Contexts == { {}, {<<"k", 1>>} }

None == <<>>
Some(c) == <<c>>

\* Optional[Dict] of SessionUpdateRequest.context
ContextInputs == {None} \cup {Some(c) : c \in Contexts}

UpdateRequests == [status : StatusInputs, context : ContextInputs]

-----------------------------------------------------------------------------
(* The agent directory.  The API modules read the JSONB descriptor column   *)
(* of an Agent row as agent_metadata.                                       *)

AgentRow(name, tasks, negotiation, budget) ==
    [agent_name |-> name,
     agent_metadata |->
        [a2a |-> [supported_tasks |-> tasks,
                  negotiation |-> negotiation,
                  token_budget |-> budget]],
     active |-> TRUE]

\* a directory after two registrations
RegisteredAgents ==
    << AgentRow("ag-a", << <<"T", "r">> >>, TRUE, 500),
       AgentRow("ag-b", << <<"s", "u", "m">> >>, FALSE, 0) >>

\* db.query(Agent).filter(Agent.agent_name == name, Agent.active == True).first()
active_agent(name) ==
    LET I == {i \in DOMAIN agents :
                agents[i].agent_name = name /\ agents[i].active}
    IN  IF I = {} THEN 0 ELSE CHOOSE i \in I : \A j \in I : i <= j

\* agent_name of the i-th registered agent, and a name never registered
AgentNames == <<"n01", "n02", "n03", "n04", "n05", "n06", "n07", "n08",
                "n09", "n10", "n11", "n12", "n13", "n14", "n15", "n16">>
Unregistered == "zz"

\* supported_tasks that hold "tr" in some letter case, and that do not
TasksWithTr == << <<"s", "u", "m">>, <<"x", "T", "r">> >>
TasksWithoutTr == << <<"t", "x", "r">> >>

\* what a registration and a later deactivation leave in an Agent row
AgentKinds ==
    { [active |-> FALSE, tasks |-> TasksWithTr, negotiation |-> TRUE, budget |-> 500],
      [active |-> TRUE, tasks |-> TasksWithoutTr, negotiation |-> TRUE, budget |-> 500],
      [active |-> TRUE, tasks |-> <<>>, negotiation |-> TRUE, budget |-> 500],
      [active |-> TRUE, tasks |-> TasksWithTr, negotiation |-> FALSE, budget |-> 0],
      [active |-> TRUE, tasks |-> TasksWithTr, negotiation |-> TRUE, budget |-> 0],
      [active |-> TRUE, tasks |-> TasksWithTr, negotiation |-> FALSE, budget |-> 500],
      [active |-> TRUE, tasks |-> TasksWithTr, negotiation |-> TRUE, budget |-> 500] }

\* the agents table whose i-th row is of the i-th kind
Directory(kinds) ==
    [i \in 1..Len(kinds) |->
        [AgentRow(AgentNames[i], kinds[i].tasks, kinds[i].negotiation,
                  kinds[i].budget) EXCEPT !.active = kinds[i].active]]

KindSeqs(n) == UNION {[1..m -> AgentKinds] : m \in 0..n}

\* the rows of the two agents a session initiation names: each is absent,
\* inactive or active
PairDirectories == {Directory(kinds) : kinds \in KindSeqs(2)}

\* the SessionInitiationRequest bodies sent against such a directory
PairInitiateRequests ==
    [initiating_agent_name : {AgentNames[1], Unregistered},
     target_agent_name : {AgentNames[2], Unregistered},
     task : {<<"T", "R">>, <<"r", "t">>, <<>>},
     context : {{}}]

\* a block of n alike agents, each capable of negotiation, without budget
Fill(n) ==
    [i \in 1..n |->
        [active |-> TRUE, tasks |-> TasksWithTr, negotiation |-> TRUE, budget |-> 0]]

\* directories for a negotiation: agents of any kind before and after a
\* block that is absent or fills the answer
NegotiationDirectories ==
    { Directory(kinds[1] \o Fill(n) \o kinds[2]) :
        kinds \in {pair \in KindSeqs(MaxFree) \X KindSeqs(MaxFree) :
                     Len(pair[1]) + Len(pair[2]) <= MaxFree},
        n \in {0, MaxFill - 1, MaxFill} }

\* the SessionInitiationRequest bodies the clients send
InitiateRequests ==
    { [initiating_agent_name |-> "ag-b", target_agent_name |-> "ag-a",
       task |-> <<"T", "R">>, context |-> {<<"k", 1>>}],
      [initiating_agent_name |-> "ag-a", target_agent_name |-> "ag-b",
       task |-> <<"t", "r">>, context |-> {}],
      [initiating_agent_name |-> "ag-c", target_agent_name |-> "ag-a",
       task |-> <<"t", "r">>, context |-> {}],
      [initiating_agent_name |-> "ag-b", target_agent_name |-> "ag-c",
       task |-> <<"t", "r">>, context |-> {}] }

-----------------------------------------------------------------------------
(* The session table. *)

\* db.query(A2ASession).filter(A2ASession.session_id == u).first()
find_session(u) ==
    LET I == {i \in DOMAIN a2a_sessions : a2a_sessions[i].session_id = u}
    IN  IF I = {} THEN 0 ELSE CHOOSE i \in I : \A j \in I : i <= j

\* the row of session u
Row(u) == a2a_sessions[find_session(u)]

\* the row of session u in the table a handler leaves behind
RowIn(table, u) ==
    table[CHOOSE i \in DOMAIN table : table[i].session_id = u]

SessionTokens == [u \in UuidValues |-> "pb_session_" \o hex(u)]

\* f"pb_session_{session_id.hex}"
session_token(u) == SessionTokens[u]

primary_key_unchecked(u) == TRUE

\* a2a_sessions.session_id is the primary key: an INSERT of a present key
\* raises IntegrityError
primary_key_free(u) == \A i \in DOMAIN a2a_sessions : a2a_sessions[i].session_id # u

\* The UPDATE a commit flushes for a row that was loaded as `loaded` and whose
\* attributes were assigned to give `dirty`: it sets the columns whose value
\* differs from the loaded one; updated_at, when it is not among them, takes
\* its onupdate default func.now(), the time the transaction began.
flushed(row, loaded, dirty, began) ==
    IF dirty = loaded
    THEN row
    ELSE [c \in DOMAIN row |->
            IF dirty[c] # loaded[c] THEN dirty[c]
            ELSE IF c = "updated_at" THEN began
            ELSE row[c]]

\* UPDATE a2a_sessions SET ... WHERE session_id = :pk
flush(loaded, dirty, began) ==
    [a2a_sessions EXCEPT
        ![find_session(loaded.session_id)] = flushed(@, loaded, dirty, began)]

-----------------------------------------------------------------------------
(* Responses: the status code and the fields of the body the claims read,  *)
(* with a record of the call: the session it named (target) and the status *)
(* that session had when the call arrived (prior_status).                  *)

Response(op, code, target, prior_status, session_id, status, token, detail) ==
    [op |-> op, code |-> code, target |-> target, prior_status |-> prior_status,
     session_id |-> session_id, status |-> status, sessionToken |-> token,
     detail |-> detail]

\* an HTTPException: no body fields but the detail
Failure(op, code, target, prior_status, detail) ==
    Response(op, code, target, prior_status, "", "", "", detail)

NoResponse == Failure("none", 0, ValueError, "", "")

\* what a handler leaves behind: the table and the response
Outcome(table, r) == [a2a_sessions |-> table, response |-> r]

-----------------------------------------------------------------------------
(* initiate_a2a_session *)

new_session_lowered(request, session_id) ==
    [session_id |-> session_id,
     initiating_agent |-> request.initiating_agent_name,
     target_agent |-> request.target_agent_name,
     task |-> lower(request.task),
     session_token |-> session_token(session_id),
     status |-> "ACTIVE",
     context |-> request.context,
     created_at |-> now,
     updated_at |-> now]

\* A2ASession(...) as inserted: created_at and updated_at take func.now()
new_session(request, session_id) ==
    [session_id |-> session_id,
     initiating_agent |-> request.initiating_agent_name,
     target_agent |-> request.target_agent_name,
     task |-> request.task,
     session_token |-> session_token(session_id),
     status |-> "ACTIVE",
     context |-> request.context,
     created_at |-> now,
     updated_at |-> now]

initiate_a2a_session_target_first(request, session_id, commit_ok) ==
    LET initiating_agent == active_agent(request.initiating_agent_name)
        target_agent == active_agent(request.target_agent_name)
    IN  IF target_agent = 0
        THEN Outcome(a2a_sessions, Failure("initiate", 404, ValueError, "", "target"))
        ELSE IF initiating_agent = 0
        THEN Outcome(a2a_sessions, Failure("initiate", 404, ValueError, "", "initiating"))
        ELSE IF ~supports_task(request.task,
                   agents[target_agent].agent_metadata.a2a.supported_tasks)
        THEN Outcome(a2a_sessions, Failure("initiate", 400, ValueError, "", "task"))
        ELSE IF commit_ok /\ primary_key_free(session_id)
        THEN Outcome(Append(a2a_sessions, new_session(request, session_id)),
                     Response("initiate", 200, session_id, "", str(session_id),
                              "active", session_token(session_id), ""))
        ELSE Outcome(a2a_sessions, Failure("initiate", 500, ValueError, "", ""))

\* POST /a2a/session/initiate; session_id is the value uuid4() returns
initiate_a2a_session(request, session_id, commit_ok) ==
    LET initiating_agent == active_agent(request.initiating_agent_name)
        target_agent == active_agent(request.target_agent_name)
    IN  IF initiating_agent = 0
        THEN Outcome(a2a_sessions, Failure("initiate", 404, ValueError, "", "initiating"))
        ELSE IF target_agent = 0
        THEN Outcome(a2a_sessions, Failure("initiate", 404, ValueError, "", "target"))
        ELSE IF ~supports_task(request.task,
                   agents[target_agent].agent_metadata.a2a.supported_tasks)
        THEN Outcome(a2a_sessions, Failure("initiate", 400, ValueError, "", "task"))
        ELSE IF commit_ok /\ primary_key_free(session_id)
        THEN Outcome(Append(a2a_sessions, new_session(request, session_id)),
                     Response("initiate", 200, session_id, "", str(session_id),
                              "active", session_token(session_id), ""))
        ELSE \* db.rollback()
             Outcome(a2a_sessions, Failure("initiate", 500, ValueError, "", ""))

\* db.add(new_session), db.commit() and the response of initiate_a2a_session
initiate_a2a_session_commit(session, commit_ok) ==
    IF commit_ok /\ primary_key_free(session.session_id)
    THEN Outcome(Append(a2a_sessions, session),
                 Response("initiate", 200, session.session_id, "",
                          str(session.session_id), "active",
                          session.session_token, ""))
    ELSE \* db.rollback()
         Outcome(a2a_sessions, Failure("initiate", 500, ValueError, "", ""))

-----------------------------------------------------------------------------
(* negotiate_task.  A JSON object is a set of <<key, value>> pairs; a match *)
(* score is counted in tenths: 8 is 0.8, and the float sums 0.8 + 0.1 and   *)
(* 0.8 + 0.1 + 0.1 are the floats 0.9 and 1.0.                              *)

\* dict.get(key, default)
get(dict, key, default) ==
    IF \E pair \in dict : pair[1] = key
    THEN (CHOOSE pair \in dict : pair[1] = key)[2]
    ELSE default

\* the preferredCapabilities the clients send
PreferredCapabilities ==
    { {},
      {<<"negotiation", TRUE>>},
      {<<"negotiation", TRUE>>, <<"token_budget", 100>>},
      {<<"negotiation", FALSE>>, <<"token_budget", 100>>} }

\* the TaskNegotiationRequest bodies the clients send
NegotiationRequests ==
    [initiating_agent_name : {AgentNames[1], Unregistered},
     requested_task : {<<"T", "R">>, <<"r", "t">>, <<>>},
     context : {{}},
     preferred_capabilities : PreferredCapabilities]

\* candidates[:10]
TopCandidates == 10

\* db.query(Agent).filter(Agent.active == True,
\*                        Agent.agent_name != initiating_agent_name).all()
candidate_agents(request) ==
    SelectSeq(agents,
              LAMBDA agent : /\ agent.active
                             /\ agent.agent_name # request.initiating_agent_name)

match_score_strict(request, a2a_data) ==
    8 + (IF get(request.preferred_capabilities, "negotiation", FALSE)
            /\ a2a_data.negotiation
         THEN 1 ELSE 0)
      + (IF a2a_data.token_budget
              > get(request.preferred_capabilities, "token_budget", 0)
         THEN 1 ELSE 0)

\* match_score of lines 79 to 92
match_score(request, a2a_data) ==
    LET Min(x, y) == IF x <= y THEN x ELSE y
    IN  Min(8 + (IF get(request.preferred_capabilities, "negotiation", FALSE)
                    /\ a2a_data.negotiation
                 THEN 1 ELSE 0)
              + (IF a2a_data.token_budget
                      >= get(request.preferred_capabilities, "token_budget", 0)
                 THEN 1 ELSE 0),
            10)

\* CandidateAgent(...)
CandidateAgent(request, agent) ==
    [agentName |-> agent.agent_name,
     matchScore |-> match_score(request, agent.agent_metadata.a2a),
     supportedTasks |-> agent.agent_metadata.a2a.supported_tasks,
     negotiation |-> agent.agent_metadata.a2a.negotiation,
     tokenBudget |-> agent.agent_metadata.a2a.token_budget]

RECURSIVE candidates_of(_, _)
\* the loop of lines 70 to 100 over the agents that are left
candidates_of(request, agents_left) ==
    IF agents_left = <<>>
    THEN <<>>
    ELSE IF supports_task(request.requested_task,
                          Head(agents_left).agent_metadata.a2a.supported_tasks)
    THEN <<CandidateAgent(request, Head(agents_left))>>
         \o candidates_of(request, Tail(agents_left))
    ELSE candidates_of(request, Tail(agents_left))

candidates_with_self(request) ==
    candidates_of(request, SelectSeq(agents, LAMBDA agent : agent.active))

\* candidates, as the loop leaves it
candidates(request) == candidates_of(request, candidate_agents(request))

RECURSIVE sort_reverse(_)
\* list.sort(key=lambda x: x.match_score, reverse=True): a stable sort, each
\* element goes behind those of the same score that came before it
sort_reverse(list) ==
    IF list = <<>>
    THEN <<>>
    ELSE LET sorted == sort_reverse(SubSeq(list, 1, Len(list) - 1))
             x == list[Len(list)]
             n == Cardinality({i \in DOMAIN sorted :
                                 sorted[i].matchScore >= x.matchScore})
         IN  SubSeq(sorted, 1, n) \o <<x>> \o SubSeq(sorted, n + 1, Len(sorted))

\* list[:10]
top(list) ==
    SubSeq(list, 1, IF Len(list) < TopCandidates THEN Len(list) ELSE TopCandidates)

negotiate_task_unsorted(request) ==
    IF active_agent(request.initiating_agent_name) = 0
    THEN Outcome(a2a_sessions, Failure("negotiate", 404, ValueError, "", "initiating"))
    ELSE Outcome(a2a_sessions,
                 Response("negotiate", 200, ValueError, "", "", "", "", "")
                 @@ [candidateAgents |->
                        top(candidates(request))])

negotiate_task_open(request) ==
    IF active_agent(request.initiating_agent_name) = 0
    THEN Outcome(a2a_sessions,
                 Response("negotiate", 200, ValueError, "", "", "", "", "")
                 @@ [candidateAgents |-> <<>>])
    ELSE Outcome(a2a_sessions,
                 Response("negotiate", 200, ValueError, "", "", "", "", "")
                 @@ [candidateAgents |->
                        top(sort_reverse(candidates(request)))])

negotiate_task_purging(request) ==
    IF active_agent(request.initiating_agent_name) = 0
    THEN Outcome(a2a_sessions, Failure("negotiate", 404, ValueError, "", "initiating"))
    ELSE Outcome(<<>>,
                 Response("negotiate", 200, ValueError, "", "", "", "", "")
                 @@ [candidateAgents |->
                        top(sort_reverse(candidates(request)))])

\* POST /a2a/negotiate
negotiate_task(request) ==
    IF active_agent(request.initiating_agent_name) = 0
    THEN Outcome(a2a_sessions, Failure("negotiate", 404, ValueError, "", "initiating"))
    ELSE Outcome(a2a_sessions,
                 Response("negotiate", 200, ValueError, "", "", "", "", "")
                 @@ [candidateAgents |->
                        top(sort_reverse(candidates(request)))])

-----------------------------------------------------------------------------
(* list_sessions *)

\* datetime.isoformat() of every time, computed once
IsoTimes == [t \in 0..(Len(HexDigits) - 1) |-> "1970-01-01T00:00:0" \o HexDigits[t + 1]]

\* session.created_at.isoformat()
isoformat(t) == IsoTimes[t]

\* Optional[str] query parameters: absent, or a text that may be empty
FilterInputs(texts) == {None} \cup {Some(t) : t \in texts}

\* `if parameter:` is false for None and for the empty string
truthy(parameter) == parameter # None /\ parameter[1] # ""

\* the query strings the clients send
ListRequests ==
    [initiating_agent : FilterInputs({"ag-a", ""}),
     target_agent : FilterInputs({"ag-a"}),
     status_filter : FilterInputs({"failed", "terminated", ""}),
     limit : {1, 2},
     offset : {0, 1}]

\* the query without parameters: limit: int = 50, offset: int = 0
DefaultListRequest ==
    [initiating_agent |-> None, target_agent |-> None, status_filter |-> None,
     limit |-> 50, offset |-> 0]

\* the rows the filters of the query keep
filtered(request) ==
    {i \in DOMAIN a2a_sessions :
        /\ truthy(request.initiating_agent)
              => a2a_sessions[i].initiating_agent = request.initiating_agent[1]
        /\ truthy(request.target_agent)
              => a2a_sessions[i].target_agent = request.target_agent[1]
        /\ truthy(request.status_filter)
              => a2a_sessions[i].status = SessionStatus(request.status_filter[1])}

\* ORDER BY created_at DESC: every arrangement of the rows in which
\* created_at does not increase; the store returns rows of equal created_at
\* in any order
order_by_created_at_desc(rows) ==
    {order \in [1..Cardinality(rows) -> rows] :
        /\ \A i, j \in DOMAIN order : i # j => order[i] # order[j]
        /\ \A i, j \in DOMAIN order :
              i < j => a2a_sessions[order[i]].created_at
                          >= a2a_sessions[order[j]].created_at}

unpaged(order, offset, limit) == order

\* .offset(offset).limit(limit)
paged(order, offset, limit) ==
    [k \in 1..(IF Len(order) - offset < limit
               THEN (IF Len(order) < offset THEN 0 ELSE Len(order) - offset)
               ELSE limit) |-> order[offset + k]]

\* the dictionary appended to results for a row
listed(session) ==
    [session_id |-> str(session.session_id),
     initiating_agent |-> session.initiating_agent,
     target_agent |-> session.target_agent,
     task |-> session.task,
     status |-> value(session.status),
     created_at |-> isoformat(session.created_at),
     updated_at |-> isoformat(session.updated_at)]

\* the body of the answer of list_sessions
listing(results, request) ==
    Response("list", 200, ValueError, "", "", "", "", "")
        @@ [sessions |-> results, total |-> Len(results),
            offset |-> request.offset, limit |-> request.limit]

\* GET /a2a/sessions, with the arrangement the store returned
list_sessions(request, order) ==
    IF truthy(request.status_filter)
       /\ request.status_filter[1] \notin valid_statuses
    THEN Outcome(a2a_sessions, Failure("list", 400, ValueError, "", "status"))
    ELSE LET sessions == paged(order, request.offset, request.limit)
         IN  Outcome(a2a_sessions,
                     listing([k \in DOMAIN sessions |->
                                 listed(a2a_sessions[sessions[k]])],
                             request))

-----------------------------------------------------------------------------
(* get_session_status *)

get_session_status_absent(session_id) ==
    LET session_uuid == UUID(session_id)
        session == find_session(session_uuid)
    IN  IF session_uuid = ValueError \/ session = 0
        THEN Outcome(a2a_sessions, Failure("status", 404, session_uuid, "", ""))
        ELSE Outcome(a2a_sessions,
                     Response("status", 200, session_uuid,
                              a2a_sessions[session].status,
                              str(a2a_sessions[session].session_id),
                              value(a2a_sessions[session].status), "", ""))

get_session_status_with_token(session_id) ==
    LET session_uuid == UUID(session_id)
        session == find_session(session_uuid)
    IN  IF session_uuid = ValueError
        THEN Outcome(a2a_sessions, Failure("status", 400, ValueError, "", "format"))
        ELSE IF session = 0
        THEN Outcome(a2a_sessions, Failure("status", 404, session_uuid, "", ""))
        ELSE Outcome(a2a_sessions,
                     Response("status", 200, session_uuid,
                              a2a_sessions[session].status,
                              str(a2a_sessions[session].session_id),
                              value(a2a_sessions[session].status),
                              a2a_sessions[session].session_token, ""))

\* GET /a2a/session/{session_id}/status
get_session_status(session_id) ==
    LET session_uuid == UUID(session_id)
        session == find_session(session_uuid)
    IN  IF session_uuid = ValueError
        THEN Outcome(a2a_sessions, Failure("status", 400, ValueError, "", "format"))
        ELSE IF session = 0
        THEN Outcome(a2a_sessions, Failure("status", 404, session_uuid, "", ""))
        ELSE Outcome(a2a_sessions,
                     Response("status", 200, session_uuid,
                              a2a_sessions[session].status,
                              str(a2a_sessions[session].session_id),
                              value(a2a_sessions[session].status), "", ""))

-----------------------------------------------------------------------------
(* update_session *)

update_assign_unless_terminal(session, request) ==
    IF session.status \in {"COMPLETED", "FAILED", "TERMINATED"}
    THEN session
    ELSE [session EXCEPT
            !.status = SessionStatus(request.status),
            !.context = IF request.context # None THEN request.context[1] ELSE @,
            !.updated_at = now]

update_assign_merge(session, request) ==
    [session EXCEPT
        !.status = SessionStatus(request.status),
        !.context = IF request.context # None
                    THEN request.context[1] \cup
                         {p \in @ : \A q \in request.context[1] : q[1] # p[1]}
                    ELSE @,
        !.updated_at = now]

update_assign_created(session, request) ==
    [session EXCEPT
        !.status = SessionStatus(request.status),
        !.context = IF request.context # None THEN request.context[1] ELSE @,
        !.created_at = now,
        !.updated_at = now]

update_assign_untimed(session, request) ==
    [session EXCEPT
        !.status = SessionStatus(request.status),
        !.context = IF request.context # None THEN request.context[1] ELSE @]

\* the assignments of update_session to the loaded row
update_assign(session, request) ==
    [session EXCEPT
        !.status = SessionStatus(request.status),
        !.context = IF request.context # None THEN request.context[1] ELSE @,
        !.updated_at = now]

\* the response of update_session, built from the row after db.refresh
update_response(session) ==
    Response("update", 200, session.session_id, "", str(session.session_id),
             value(session.status), "", "")

update_session_partial(session_id, request, commit_ok) ==
    LET session_uuid == UUID(session_id)
        session == find_session(session_uuid)
        committed == flush(a2a_sessions[session],
                           update_assign(a2a_sessions[session], request), now)
    IN  IF session_uuid = ValueError
        THEN Outcome(a2a_sessions, Failure("update", 400, ValueError, "", "format"))
        ELSE IF session = 0
        THEN Outcome(a2a_sessions, Failure("update", 404, session_uuid, "", ""))
        ELSE IF request.status \notin valid_statuses
        THEN Outcome(a2a_sessions,
                     Failure("update", 400, session_uuid,
                             a2a_sessions[session].status, "status"))
        ELSE IF commit_ok
        THEN Outcome(committed,
                     [update_response(committed[session]) EXCEPT
                        !.prior_status = a2a_sessions[session].status])
        ELSE Outcome(committed,
                     Failure("update", 500, session_uuid,
                             a2a_sessions[session].status, ""))

\* PUT /a2a/session/{session_id}
update_session(session_id, request, commit_ok) ==
    LET session_uuid == UUID(session_id)
        session == find_session(session_uuid)
        committed == flush(a2a_sessions[session],
                           update_assign(a2a_sessions[session], request), now)
    IN  IF session_uuid = ValueError
        THEN Outcome(a2a_sessions, Failure("update", 400, ValueError, "", "format"))
        ELSE IF session = 0
        THEN Outcome(a2a_sessions, Failure("update", 404, session_uuid, "", ""))
        ELSE IF request.status \notin valid_statuses
        THEN Outcome(a2a_sessions,
                     Failure("update", 400, session_uuid,
                             a2a_sessions[session].status, "status"))
        ELSE IF commit_ok
        THEN Outcome(committed,
                     [update_response(committed[session]) EXCEPT
                        !.prior_status = a2a_sessions[session].status])
        ELSE \* db.rollback()
             Outcome(a2a_sessions,
                     Failure("update", 500, session_uuid,
                             a2a_sessions[session].status, ""))

-----------------------------------------------------------------------------
(* terminate_session *)

terminate_assign_if_active(session) ==
    IF session.status = "ACTIVE"
    THEN [session EXCEPT !.status = "FAILED", !.updated_at = now]
    ELSE session

terminate_assign_terminated(session) ==
    [session EXCEPT !.status = "TERMINATED", !.updated_at = now]

\* the assignments of terminate_session to the loaded row
terminate_assign(session) ==
    [session EXCEPT !.status = "FAILED", !.updated_at = now]

terminate_session_once(session_id, commit_ok) ==
    LET session_uuid == UUID(session_id)
        session == find_session(session_uuid)
    IN  IF session_uuid = ValueError
        THEN Outcome(a2a_sessions, Failure("terminate", 400, ValueError, "", "format"))
        ELSE IF session = 0
        THEN Outcome(a2a_sessions, Failure("terminate", 404, session_uuid, "", ""))
        ELSE IF a2a_sessions[session].status = "FAILED"
        THEN Outcome(a2a_sessions,
                     Failure("terminate", 409, session_uuid,
                             a2a_sessions[session].status, "terminated"))
        ELSE IF commit_ok
        THEN Outcome(flush(a2a_sessions[session],
                           terminate_assign(a2a_sessions[session]), now),
                     Response("terminate", 200, session_uuid,
                              a2a_sessions[session].status, "", "failed", "", ""))
        ELSE Outcome(a2a_sessions,
                     Failure("terminate", 500, session_uuid,
                             a2a_sessions[session].status, ""))

\* DELETE /a2a/session/{session_id}
terminate_session(session_id, commit_ok) ==
    LET session_uuid == UUID(session_id)
        session == find_session(session_uuid)
    IN  IF session_uuid = ValueError
        THEN Outcome(a2a_sessions, Failure("terminate", 400, ValueError, "", "format"))
        ELSE IF session = 0
        THEN Outcome(a2a_sessions, Failure("terminate", 404, session_uuid, "", ""))
        ELSE IF commit_ok
        THEN Outcome(flush(a2a_sessions[session],
                           terminate_assign(a2a_sessions[session]), now),
                     Response("terminate", 200, session_uuid,
                              a2a_sessions[session].status, "", "failed", "", ""))
        ELSE \* db.rollback()
             Outcome(a2a_sessions,
                     Failure("terminate", 500, session_uuid,
                             a2a_sessions[session].status, ""))

-----------------------------------------------------------------------------
(* register_agent and deactivate_agent (api/registration.py). *)

\* an agent_name of fewer than three characters
TooShort == "x"

\* validate_agent_name(agent_name).is_valid, for names of letters, digits,
\* inner dots and inner dashes
validate_agent_name(agent_name) == Len(agent_name) >= 3 /\ Len(agent_name) <= 253

\* the AgentRegistrationRequest bodies the clients send
RegistrationRequests ==
    [agent_name : {"ag-a", "ag-c", TooShort},
     metadata : {[a2a |-> [supported_tasks |-> TasksWithTr,
                           negotiation |-> TRUE,
                           token_budget |-> 500]]}]

\* Agent(agent_name=..., agent_metadata=request.metadata.dict(), active=True)
new_agent(request) ==
    [agent_name |-> request.agent_name,
     agent_metadata |-> request.metadata,
     active |-> TRUE]

agent_name_unchecked(agent_name) == TRUE

\* agents.agent_name is unique: an INSERT of a present name raises
\* IntegrityError
agent_name_free(agent_name) ==
    \A i \in DOMAIN agents : agents[i].agent_name # agent_name

\* what a handler leaves behind in the directory: the table and the response
Registered(table, r) == [agents |-> table, response |-> r]

\* POST /register up to db.add(new_agent): an HTTPException raised for a
\* validation error is caught by `except Exception` and answered 500
register_agent_validation(request) ==
    IF validate_agent_name(request.agent_name)
    THEN NoResponse
    ELSE Failure("register", 500, ValueError, "", "")

\* POST /register from db.add(new_agent): the INSERT, the commit and the
\* response
register_agent_commit(agent, commit_ok) ==
    IF ~commit_ok
    THEN Registered(agents, Failure("register", 500, ValueError, "", ""))
    ELSE IF ~agent_name_free(agent.agent_name)
    THEN Registered(agents, Failure("register", 409, ValueError, "", "exists"))
    ELSE Registered(Append(agents, agent),
                    Response("register", 200, ValueError, "", "", "registered", "", ""))

\* db.query(Agent).filter(Agent.agent_name == agent_name).first()
agent_named(agent_name) ==
    LET I == {i \in DOMAIN agents : agents[i].agent_name = agent_name}
    IN  IF I = {} THEN 0 ELSE CHOOSE i \in I : \A j \in I : i <= j

deactivate_agent_toggle(agent_name, commit_ok) ==
    LET agent == agent_named(agent_name)
    IN  IF agent = 0
        THEN Registered(agents, Failure("deactivate", 404, ValueError, "", ""))
        ELSE IF commit_ok
        THEN Registered([agents EXCEPT ![agent].active = ~@],
                        Response("deactivate", 200, ValueError, "", "",
                                 "deactivated", "", ""))
        ELSE Registered(agents, Failure("deactivate", 500, ValueError, "", ""))

\* POST /deactivate
deactivate_agent(agent_name, commit_ok) ==
    LET agent == agent_named(agent_name)
    IN  IF agent = 0
        THEN Registered(agents, Failure("deactivate", 404, ValueError, "", ""))
        ELSE IF commit_ok
        THEN Registered([agents EXCEPT ![agent].active = FALSE],
                        Response("deactivate", 200, ValueError, "", "",
                                 "deactivated", "", ""))
        ELSE \* db.rollback()
             Registered(agents, Failure("deactivate", 500, ValueError, "", ""))

-----------------------------------------------------------------------------
(* src/main.py: the registration app with its dictionary of agents. *)

\* AgentRegistrationRequest bodies: name, version and the api_endpoint, which
\* is an HttpUrl
AgentData ==
    [name : {"a", "b"}, version : {"1", "2"}, api_endpoint : {"http://a", "a"}]

\* pydantic accepts the body
valid_agent_data(agent_data) == agent_data.api_endpoint = "http://a"

\* AgentDB(agent_id=new_agent_id, **agent_data.model_dump())
AgentDB(new_agent_id, agent_data) ==
    [agent_id |-> new_agent_id, name |-> agent_data.name,
     version |-> agent_data.version, api_endpoint |-> agent_data.api_endpoint,
     verified |-> FALSE, created_at |-> now, updated_at |-> now]

existing_agent_by_name(agent_data) ==
    \E agent_id \in DOMAIN agent_db_internal :
        agent_db_internal[agent_id].name = agent_data.name

\* some stored agent has the name and the version
existing_agent(agent_data) ==
    \E agent_id \in DOMAIN agent_db_internal :
        /\ agent_db_internal[agent_id].name = agent_data.name
        /\ agent_db_internal[agent_id].version = agent_data.version

\* agent_db_internal[new_agent_id] = agent_to_store
stored(new_agent_id, agent_to_store) ==
    [agent_id \in DOMAIN agent_db_internal \cup {new_agent_id} |->
        IF agent_id = new_agent_id THEN agent_to_store
        ELSE agent_db_internal[agent_id]]

\* POST /agents/register of src/main.py: the dictionary and the response
main_register_agent(agent_data, new_agent_id) ==
    IF ~valid_agent_data(agent_data)
    THEN [agent_db_internal |-> agent_db_internal,
          response |-> Failure("main_register", 422, ValueError, "", "")]
    ELSE IF existing_agent(agent_data)
    THEN [agent_db_internal |-> agent_db_internal,
          response |-> Failure("main_register", 409, ValueError, "", "exists")]
    ELSE [agent_db_internal |-> stored(new_agent_id, AgentDB(new_agent_id, agent_data)),
          response |-> Response("main_register", 201, new_agent_id, "", "",
                                "registered", "", "")]

-----------------------------------------------------------------------------
(* RateLimiter and rate_limit_middleware (api/auth.py).  Times are whole    *)
(* numbers of the clock.                                                    *)

\* f"ip:{client_ip}" of two clients
Identifiers == {"ip:1", "ip:2"}

\* the coroutines that run rate_limit_middleware
Tasks == {"t1", "t2"}

NoCall == [pc |-> "idle", identifier |-> "", now |-> 0, found |-> <<>>]

\* the requests recorded after window_start
clean(recorded, window_start) ==
    SelectSeq(recorded, LAMBDA req_time : req_time > window_start)

\* min(self.requests[identifier])
min(recorded) ==
    CHOOSE t \in {recorded[i] : i \in DOMAIN recorded} :
        \A i \in DOMAIN recorded : t <= recorded[i]

\* RateLimitInfo
RateLimitInfo(requests_remaining, reset_time, limit) ==
    [requests_remaining |-> requests_remaining, reset_time |-> reset_time,
     limit |-> limit]

is_allowed_past_limit(identifier, limit, window, at) ==
    LET kept == clean(requests[identifier], at - window)
        current_count == Len(kept)
    IN  IF current_count > limit
        THEN [requests |-> [requests EXCEPT ![identifier] = kept],
              info |-> RateLimitInfo(0, (IF kept # <<>> THEN min(kept) ELSE at) + window,
                                     limit)]
        ELSE [requests |-> [requests EXCEPT ![identifier] = Append(kept, at)],
              info |-> RateLimitInfo(limit - (current_count + 1), at + window, limit)]

\* the body of is_allowed under the lock of the identifier, for a call that
\* read time.time() as `at`: the recorded requests and the RateLimitInfo
is_allowed(identifier, limit, window, at) ==
    LET kept == clean(requests[identifier], at - window)
        current_count == Len(kept)
    IN  IF current_count >= limit
        THEN [requests |-> [requests EXCEPT ![identifier] = kept],
              info |-> RateLimitInfo(0, (IF kept # <<>> THEN min(kept) ELSE at) + window,
                                     limit)]
        ELSE [requests |-> [requests EXCEPT ![identifier] = Append(kept, at)],
              info |-> RateLimitInfo(limit - (current_count + 1), at + window, limit)]

\* rate_limit_middleware after is_allowed returned: 429 or no exception
rate_limit_status(rate_info) ==
    IF rate_info.requests_remaining = 0 THEN 429 ELSE 200

-----------------------------------------------------------------------------
(* The system: requests arrive one after the other and time passes. *)

Workers == {"w1", "w2"}

NoRow ==
    [session_id |-> ValueError, initiating_agent |-> "", target_agent |-> "",
     task |-> <<>>, session_token |-> "", status |-> "", context |-> {},
     created_at |-> 0, updated_at |-> 0]

Idle == [op |-> "idle", loaded |-> NoRow, dirty |-> NoRow, began |-> 0]

NoCalls == [base |-> NoRow, calls |-> {}]

\* nothing registered in src/main.py, nothing recorded by the rate limiter
InitApart ==
    /\ agent_db_internal = <<>>
    /\ requests = [identifier \in Identifiers |-> <<>>]
    /\ coroutines = [task \in Tasks |-> NoCall]

Init ==
    /\ InitApart
    /\ agents = RegisteredAgents
    /\ a2a_sessions = <<>>
    /\ now = 0
    /\ response = NoResponse
    /\ nreq = 0
    /\ issued = <<>>
    /\ txn = [w \in Workers |-> Idle]
    /\ conc = [u \in Uuids |-> NoCalls]

\* a request arrives
Accept ==
    /\ nreq < MaxRequests
    /\ nreq' = nreq + 1

\* the handler runs from its start to its response
Handle(outcome) ==
    /\ Accept
    /\ a2a_sessions' = outcome.a2a_sessions
    /\ response' = outcome.response
    /\ UNCHANGED <<agents, now, txn, conc, apart>>

\* time passes
Tick ==
    /\ now < MaxTime
    /\ now' = now + 1
    /\ UNCHANGED <<agents, a2a_sessions, response, nreq, issued, txn, conc, apart>>

Initiate ==
    \E request \in InitiateRequests, session_id \in Uuids, commit_ok \in BOOLEAN :
        LET outcome == initiate_a2a_session(request, session_id, commit_ok)
        IN  /\ Handle(outcome)
            /\ issued' = IF outcome.response.code = 200
                         THEN Append(issued, <<outcome.response.session_id,
                                               outcome.response.sessionToken>>)
                         ELSE issued

GetStatus ==
    \E session_id \in SessionIdInputs :
        /\ Handle(get_session_status(session_id))
        /\ UNCHANGED issued

Update ==
    \E session_id \in SessionIdInputs, request \in UpdateRequests, commit_ok \in BOOLEAN :
        /\ Handle(update_session(session_id, request, commit_ok))
        /\ UNCHANGED issued

Terminate ==
    \E session_id \in SessionIdInputs, commit_ok \in BOOLEAN :
        /\ Handle(terminate_session(session_id, commit_ok))
        /\ UNCHANGED issued

Next ==
    \/ Initiate
    \/ GetStatus
    \/ Update
    \/ Terminate
    \/ Tick

Spec == Init /\ [][Next]_vars

-----------------------------------------------------------------------------
(* Several server processes on one database.  Each request has its own      *)
(* database session: update_session and terminate_session load the row,    *)
(* assign its attributes, and the commit flushes the UPDATE later; no row   *)
(* lock is taken and no version is checked.  The store commits every write. *)

\* worker w has loaded session u and has not committed yet
Pending(w, u) == txn[w].op # "idle" /\ txn[w].loaded.session_id = u

\* the call joins the calls that overlap on session u
Joined(u, row, call) ==
    IF \E w \in Workers : Pending(w, u)
    THEN [conc[u] EXCEPT !.calls = @ \cup {[call EXCEPT !.n = Cardinality(conc[u].calls) + 1]}]
    ELSE [base |-> row, calls |-> {call}]

\* worker w runs the handler up to its db.commit()
Begin(w, op, outcome, u, dirty, sets_context) ==
    /\ txn[w] = Idle
    /\ Accept
    /\ UNCHANGED <<agents, a2a_sessions, now, issued, apart>>
    /\ IF outcome.response.code # 200
       THEN /\ response' = outcome.response
            /\ UNCHANGED <<txn, conc>>
       ELSE /\ txn' = [txn EXCEPT ![w] = [op |-> op, loaded |-> Row(u),
                                          dirty |-> dirty, began |-> now]]
            /\ conc' = [conc EXCEPT ![u] =
                           Joined(u, Row(u), [n |-> 1, dirty |-> dirty,
                                              sets_context |-> sets_context])]
            /\ UNCHANGED response

\* update_session, lines 78 to 109
BeginUpdate ==
    \E w \in Workers, session_id \in SessionIdInputs, request \in UpdateRequests :
        Begin(w, "update", update_session(session_id, request, TRUE),
              UUID(session_id),
              update_assign(Row(UUID(session_id)), request),
              request.context # None)

\* terminate_session, lines 134 to 155
BeginTerminate ==
    \E w \in Workers, session_id \in SessionIdInputs :
        Begin(w, "terminate", terminate_session(session_id, TRUE),
              UUID(session_id),
              terminate_assign(Row(UUID(session_id))),
              FALSE)

\* db.commit() and the response, lines 111 to 118 and 157 to 162
Commit ==
    \E w \in Workers :
        /\ txn[w].op # "idle"
        /\ a2a_sessions' = flush(txn[w].loaded, txn[w].dirty, txn[w].began)
        /\ response' =
              IF txn[w].op = "update"
              THEN [update_response(RowIn(a2a_sessions', txn[w].loaded.session_id))
                       EXCEPT !.prior_status = txn[w].loaded.status]
              ELSE Response("terminate", 200, txn[w].loaded.session_id,
                            txn[w].loaded.status, "", "failed", "", "")
        /\ txn' = [txn EXCEPT ![w] = Idle]
        /\ UNCHANGED <<agents, now, nreq, issued, conc, apart>>

NextConc ==
    \/ Initiate
    \/ BeginUpdate
    \/ BeginTerminate
    \/ Commit
    \/ Tick

SpecConc == Init /\ [][NextConc]_vars

-----------------------------------------------------------------------------
(* Session initiations against every directory of the two agents named.    *)
(* The response keeps the request it answers.                               *)

InitDirectory(directories, store) ==
    /\ InitApart
    /\ agents \in directories
    /\ a2a_sessions = store
    /\ now = 0
    /\ response = NoResponse
    /\ nreq = 0
    /\ issued = [i \in DOMAIN store |->
                   <<str(store[i].session_id), store[i].session_token>>]
    /\ txn = [w \in Workers |-> Idle]
    /\ conc = [u \in Uuids |-> NoCalls]

\* the response with the request body it answers
Answering(request, r) == r @@ [request |-> request]

InitiateIn ==
    \E request \in PairInitiateRequests, session_id \in Uuids, commit_ok \in BOOLEAN :
        LET outcome == initiate_a2a_session(request, session_id, commit_ok)
        IN  /\ Accept
            /\ a2a_sessions' = outcome.a2a_sessions
            /\ response' = Answering(request, outcome.response)
            /\ issued' = IF outcome.response.code = 200
                         THEN Append(issued, <<outcome.response.session_id,
                                               outcome.response.sessionToken>>)
                         ELSE issued
            /\ UNCHANGED <<agents, now, txn, conc, apart>>

InitInitiate == InitDirectory(PairDirectories, <<>>)

NextInitiate == InitiateIn

SpecInitiate == InitInitiate /\ [][NextInitiate]_vars

-----------------------------------------------------------------------------
(* Negotiations against directories of up to TopCandidates and more         *)
(* candidates, with a session in the store.  The answer is a function of   *)
(* the directory and the request: each behaviour answers one negotiation.   *)

\* a store in which a session was initiated earlier
StoredSessions ==
    << [session_id |-> 0,
        initiating_agent |-> AgentNames[1],
        target_agent |-> AgentNames[2],
        task |-> <<"T", "R">>,
        session_token |-> session_token(0),
        status |-> "ACTIVE",
        context |-> {},
        created_at |-> 0,
        updated_at |-> 0] >>

NegotiateIn ==
    \E request \in NegotiationRequests :
        LET outcome == negotiate_task(request)
        IN  /\ nreq = 0
            /\ nreq' = 1
            /\ a2a_sessions' = outcome.a2a_sessions
            /\ response' = Answering(request, outcome.response)
            /\ UNCHANGED <<agents, now, issued, txn, conc, apart>>

InitNegotiate == InitDirectory(NegotiationDirectories, StoredSessions)

NextNegotiate == NegotiateIn

SpecNegotiate == InitNegotiate /\ [][NextNegotiate]_vars

-----------------------------------------------------------------------------
(* Listings of stores that earlier initiations and terminations left: the  *)
(* rows are in the order of their creation.  Each behaviour answers one     *)
(* query.                                                                   *)

\* a row: who initiated with whom, the status, and the time of creation
StoredKinds ==
    { [pair |-> kind[1], status |-> kind[2], created_at |-> t] :
        kind \in { <<<<"ag-a", "ag-b">>, "ACTIVE">>,
                   <<<<"ag-a", "ag-b">>, "FAILED">>,
                   <<<<"ag-b", "ag-a">>, "FAILED">> },
        t \in 0..MaxTime }

StoredRow(i, kind) ==
    [session_id |-> i - 1,
     initiating_agent |-> kind.pair[1],
     target_agent |-> kind.pair[2],
     task |-> <<"T", "R">>,
     session_token |-> session_token(i - 1),
     status |-> kind.status,
     context |-> {},
     created_at |-> kind.created_at,
     updated_at |-> kind.created_at]

ListedStores ==
    { [i \in DOMAIN kinds |-> StoredRow(i, kinds[i])] :
        kinds \in {k \in UNION {[1..n -> StoredKinds] : n \in 0..MaxStored} :
                     \A i, j \in DOMAIN k :
                        i < j => k[i].created_at <= k[j].created_at} }

InitList ==
    /\ InitApart
    /\ agents = RegisteredAgents
    /\ a2a_sessions \in ListedStores
    /\ now = MaxTime
    /\ response = NoResponse
    /\ nreq = 0
    /\ issued = [i \in DOMAIN a2a_sessions |->
                   <<str(a2a_sessions[i].session_id), a2a_sessions[i].session_token>>]
    /\ txn = [w \in Workers |-> Idle]
    /\ conc = [u \in Uuids |-> NoCalls]

ListIn ==
    /\ nreq = 0
    /\ nreq' = 1
    /\ \E request \in ListRequests :
          \E order \in order_by_created_at_desc(filtered(request)) :
              LET outcome == list_sessions(request, order)
              IN  /\ a2a_sessions' = outcome.a2a_sessions
                  /\ response' = Answering(request, outcome.response)
    /\ UNCHANGED <<agents, now, issued, txn, conc, apart>>

NextList == ListIn

SpecList == InitList /\ [][NextList]_vars

-----------------------------------------------------------------------------
(* The registration app of src/main.py: uvicorn runs register_agent, which  *)
(* never awaits, from start to end.                                         *)

MainRegister ==
    \E agent_data \in AgentData, new_agent_id \in Uuids :
        LET outcome == main_register_agent(agent_data, new_agent_id)
        IN  /\ Accept
            /\ agent_db_internal' = outcome.agent_db_internal
            /\ response' = Answering(agent_data, outcome.response)
            /\ UNCHANGED <<agents, a2a_sessions, now, issued, txn, conc,
                           requests, coroutines>>

NextMain == MainRegister \/ Tick

SpecMain == Init /\ [][NextMain]_vars

-----------------------------------------------------------------------------
(* The rate limiter: rate_limit_middleware runs as a coroutine per request. *)
(* It reads time.time(), takes the lock of the identifier, and runs the     *)
(* body of is_allowed, which does not await, to the end.                    *)

\* rate_limit_middleware up to `async with self.locks[identifier]`
RateEnter ==
    \E task \in Tasks, identifier \in Identifiers :
        /\ coroutines[task] = NoCall
        /\ nreq < MaxCalls
        /\ nreq' = nreq + 1
        /\ coroutines' = [coroutines EXCEPT ![task] =
                            [pc |-> "lock", identifier |-> identifier, now |-> now,
                             found |-> requests[identifier]]]
        /\ UNCHANGED <<agents, a2a_sessions, now, response, issued, txn, conc,
                       agent_db_internal, requests>>

\* the body of is_allowed and the rest of rate_limit_middleware
RateBody ==
    \E task \in Tasks :
        /\ coroutines[task].pc = "lock"
        /\ LET call == coroutines[task]
               result == is_allowed(call.identifier, MaxLimit, Window, call.now)
           IN  /\ requests' = result.requests
               /\ response' =
                     Failure("rate", rate_limit_status(result.info), ValueError, "", "")
                        @@ [identifier |-> call.identifier,
                            rate_info |-> result.info,
                            before |-> Len(clean(requests[call.identifier],
                                                 call.now - Window)),
                            at |-> call.now,
                            overlapped |-> requests[call.identifier] # call.found]
        /\ coroutines' = [coroutines EXCEPT ![task] = NoCall]
        /\ UNCHANGED <<agents, a2a_sessions, now, nreq, issued, txn, conc,
                       agent_db_internal>>

NextRate == RateEnter \/ RateBody \/ Tick

SpecRate == Init /\ [][NextRate]_vars

-----------------------------------------------------------------------------
(* The directory and the sessions under several server processes on one    *)
(* database: register_agent and initiate_a2a_session read and validate,    *)
(* and their INSERT reaches the store at db.commit(); no row is locked and *)
(* a2a_sessions has no foreign key to agents.  A response keeps the        *)
(* request it answers and the number of that request.                      *)

\* the agent_name query parameters of POST /deactivate
DeactivateInputs == {"ag-a", "ag-c", Unregistered}

\* the TaskNegotiationRequest bodies sent against the registered agents
DirectoryNegotiations ==
    [initiating_agent_name : {"ag-a", "ag-b"},
     requested_task : {<<"t", "r">>},
     context : {{}},
     preferred_capabilities : {{}}]

\* the response to request number seq
Answer(request, seq, r) == Answering(request, r) @@ [seq |-> seq]

\* worker w holds the INSERT of `dirty` until its db.commit()
Hold(w, op, request, dirty) ==
    txn' = [txn EXCEPT ![w] = [op |-> op, loaded |-> NoRow, dirty |-> dirty,
                               began |-> now, request |-> request,
                               seq |-> nreq']]

\* register_agent, lines 202 to 261
BeginRegister ==
    \E w \in Workers, request \in RegistrationRequests :
        /\ txn[w] = Idle
        /\ Accept
        /\ IF register_agent_validation(request) # NoResponse
           THEN /\ response' = Answer(request, nreq',
                                      register_agent_validation(request))
                /\ UNCHANGED txn
           ELSE /\ Hold(w, "register",
                        request @@ [free |-> agent_name_free(request.agent_name)],
                        new_agent(request))
                /\ UNCHANGED response
        /\ UNCHANGED <<agents, a2a_sessions, now, issued, conc, apart>>

\* register_agent, lines 262 to 287
CommitRegister ==
    \E w \in Workers, commit_ok \in BOOLEAN :
        LET outcome == register_agent_commit(txn[w].dirty, commit_ok)
        IN  /\ txn[w].op = "register"
            /\ agents' = outcome.agents
            /\ response' = Answer(txn[w].request, txn[w].seq, outcome.response)
                           @@ [commit_ok |-> commit_ok]
            /\ txn' = [txn EXCEPT ![w] = Idle]
            /\ UNCHANGED <<a2a_sessions, now, nreq, issued, conc, apart>>

\* deactivate_agent: its UPDATE names the row by its primary key
Deactivate ==
    \E agent_name \in DeactivateInputs, commit_ok \in BOOLEAN :
        LET outcome == deactivate_agent(agent_name, commit_ok)
        IN  /\ Accept
            /\ agents' = outcome.agents
            /\ response' = Answer([agent_name |-> agent_name], nreq',
                                  outcome.response)
            /\ UNCHANGED <<a2a_sessions, now, issued, txn, conc, apart>>

\* initiate_a2a_session, lines 108 to 163
BeginInitiate ==
    \E w \in Workers, request \in InitiateRequests, session_id \in Uuids :
        LET outcome == initiate_a2a_session(request, session_id, TRUE)
        IN  /\ txn[w] = Idle
            /\ Accept
            /\ IF outcome.response.code # 200
               THEN /\ response' = Answer(request, nreq', outcome.response)
                    /\ UNCHANGED txn
               ELSE /\ Hold(w, "initiate", request,
                            new_session(request, session_id))
                    /\ UNCHANGED response
            /\ UNCHANGED <<agents, a2a_sessions, now, issued, conc, apart>>

\* initiate_a2a_session, lines 164 to 180
CommitInitiate ==
    \E w \in Workers, commit_ok \in BOOLEAN :
        LET outcome == initiate_a2a_session_commit(txn[w].dirty, commit_ok)
        IN  /\ txn[w].op = "initiate"
            /\ a2a_sessions' = outcome.a2a_sessions
            /\ response' = Answer(txn[w].request, txn[w].seq, outcome.response)
            /\ issued' = IF outcome.response.code = 200
                         THEN Append(issued, <<outcome.response.session_id,
                                               outcome.response.sessionToken>>)
                         ELSE issued
            /\ txn' = [txn EXCEPT ![w] = Idle]
            /\ UNCHANGED <<agents, now, nreq, conc, apart>>

\* negotiate_task
Negotiate ==
    \E request \in DirectoryNegotiations :
        LET outcome == negotiate_task(request)
        IN  /\ Accept
            /\ a2a_sessions' = outcome.a2a_sessions
            /\ response' = Answer(request, nreq', outcome.response)
            /\ UNCHANGED <<agents, now, issued, txn, conc, apart>>

NextAgents ==
    \/ BeginRegister
    \/ CommitRegister
    \/ Deactivate
    \/ BeginInitiate
    \/ CommitInitiate
    \/ Negotiate

SpecAgents == Init /\ [][NextAgents]_vars

-----------------------------------------------------------------------------
(* Properties of the session lifecycle.  A property of a handler is stated  *)
(* of its outcome in every reachable state, for every request.              *)

Terminal == {"COMPLETED", "FAILED", "TERMINATED"}

\* session_id names a stored session
Names(session_id) ==
    /\ UUID(session_id) # ValueError
    /\ find_session(UUID(session_id)) # 0

\* the request bodies {"status": status}, with each choice of context
WithStatus(status) == {r \in UpdateRequests : r.status = status}

\* C1: once a session is COMPLETED, FAILED or TERMINATED, every updateSession
\* on it fails and leaves its status as it was.
C1_TerminalStatusIsFinal ==
    [][( /\ nreq' = nreq + 1
         /\ response'.op = "update"
         /\ response'.prior_status \in Terminal )
       => /\ response'.code # 200
          /\ RowIn(a2a_sessions', response'.target).status = response'.prior_status
      ]_vars

\* C2: while the store commits, updateSession(id, "completed") on a FAILED
\* session returns 200 and leaves it COMPLETED, and updateSession(id, "active")
\* on a session in a terminal status returns 200 and leaves it ACTIVE.
C2_UpdateOverwritesTerminal ==
    \A session_id \in SessionIdInputs :
        Names(session_id) =>
            /\ Row(UUID(session_id)).status = "FAILED" =>
                  \A request \in WithStatus("completed") :
                      LET outcome == update_session(session_id, request, TRUE)
                      IN  /\ outcome.response.code = 200
                          /\ outcome.response.status = "completed"
                          /\ RowIn(outcome.a2a_sessions, UUID(session_id)).status
                                = "COMPLETED"
            /\ Row(UUID(session_id)).status \in Terminal =>
                  \A request \in WithStatus("active") :
                      LET outcome == update_session(session_id, request, TRUE)
                      IN  /\ outcome.response.code = 200
                          /\ outcome.response.status = "active"
                          /\ RowIn(outcome.a2a_sessions, UUID(session_id)).status
                                = "ACTIVE"

\* a FAILED session has just been updated to COMPLETED
C2_Witness ==
    /\ response.op = "update"
    /\ response.code = 200
    /\ response.prior_status = "FAILED"
    /\ Row(response.target).status = "COMPLETED"

\* C3: while the store commits, terminateSession on an existing session
\* returns 200 and leaves it FAILED with updatedAt set to the time of the call,
\* whatever its status was.
C3_TerminateForcesFailed ==
    \A session_id \in SessionIdInputs :
        Names(session_id) =>
            LET outcome == terminate_session(session_id, TRUE)
                session == RowIn(outcome.a2a_sessions, UUID(session_id))
            IN  /\ outcome.response.code = 200
                /\ outcome.response.status = "failed"
                /\ session.status = "FAILED"
                /\ session.updated_at = now

\* a COMPLETED session has just been terminated, later than it was created
C3_Witness ==
    /\ response.op = "terminate"
    /\ response.code = 200
    /\ response.prior_status = "COMPLETED"
    /\ Row(response.target).status = "FAILED"
    /\ Row(response.target).updated_at > Row(response.target).created_at

\* C4: right after a successful terminateSession the session is FAILED, and
\* while the store commits a second terminateSession of it returns 200 and
\* leaves it FAILED.
C4_TerminateIdempotent ==
    ( /\ response.op = "terminate"
      /\ response.code = 200 )
    => /\ Row(response.target).status = "FAILED"
       /\ \A session_id \in SessionIdInputs :
             UUID(session_id) = response.target =>
                LET outcome == terminate_session(session_id, TRUE)
                IN  /\ outcome.response.code = 200
                    /\ RowIn(outcome.a2a_sessions, response.target).status = "FAILED"

\* a session that was FAILED already has been terminated with success
C4_Witness ==
    /\ response.op = "terminate"
    /\ response.code = 200
    /\ response.prior_status = "FAILED"
    /\ nreq = 3
    /\ Len(a2a_sessions) = 1
    /\ Row(response.target).status = "FAILED"

\* C5: no session has status TERMINATED.
C5_NeverTerminated ==
    \A i \in DOMAIN a2a_sessions :
        a2a_sessions[i].status \in {"ACTIVE", "COMPLETED", "FAILED"}

\* a session has been terminated
C5_Witness ==
    /\ response.op = "terminate"
    /\ response.code = 200
    /\ response.prior_status = "ACTIVE"
    /\ \E i \in DOMAIN a2a_sessions : a2a_sessions[i].status = "FAILED"

\* C7: the ids that successful initiations returned are pairwise different,
\* every one of them still names a stored session (also a terminated one),
\* and each token is pb_session_ followed by the hex form of its id, so the
\* tokens are pairwise different too.
C7_SessionIdsUnique ==
    /\ \A i, j \in DOMAIN issued :
          i # j => issued[i][1] # issued[j][1] /\ issued[i][2] # issued[j][2]
    /\ \A i \in DOMAIN issued :
          /\ Names(issued[i][1])
          /\ issued[i][2] = session_token(UUID(issued[i][1]))
          /\ Row(UUID(issued[i][1])).session_token = issued[i][2]
    /\ Len(issued) = Len(a2a_sessions)

\* a second session has been created after the first one was terminated
C7_Witness ==
    /\ Len(issued) = 2
    /\ response.op = "initiate"
    /\ response.code = 200
    /\ response.session_id = issued[2][1]
    /\ Row(UUID(issued[1][1])).status = "FAILED"

\* the fields of a row that updateSession and terminateSession may not change
Immutable(session) ==
    <<session.session_id, session.session_token, session.initiating_agent,
      session.target_agent, session.task, session.created_at>>

\* C8: updateSession and terminateSession leave every stored session its
\* sessionId, sessionToken, initiatingAgent, targetAgent, task and createdAt,
\* and neither add nor remove a session, whatever request arrives.
C8_ImmutableFields ==
    nreq < MaxRequests =>
    \A session_id \in SessionIdInputs, commit_ok \in BOOLEAN :
        /\ \A table \in {terminate_session(session_id, commit_ok).a2a_sessions} :
              /\ DOMAIN table = DOMAIN a2a_sessions
              /\ \A i \in DOMAIN table :
                    Immutable(table[i]) = Immutable(a2a_sessions[i])
        /\ \A request \in UpdateRequests :
              \A table \in {update_session(session_id, request, commit_ok).a2a_sessions} :
                  /\ DOMAIN table = DOMAIN a2a_sessions
                  /\ \A i \in DOMAIN table :
                        Immutable(table[i]) = Immutable(a2a_sessions[i])

\* a session created with a context was updated at a later time
C8_Witness ==
    /\ response.op = "update"
    /\ response.code = 200
    /\ response.prior_status = "ACTIVE"
    /\ Row(response.target).task = <<"T", "R">>
    /\ Row(response.target).created_at = 0
    /\ Row(response.target).updated_at = 1
    /\ Row(response.target).session_token = session_token(response.target)

\* C9: while the store commits, an accepted updateSession leaves the context
\* equal to the supplied one when one is supplied, the empty one included, and
\* unchanged when none is supplied; terminateSession leaves it unchanged;
\* whatever request arrives.
C9_ContextReplaced ==
    nreq < MaxRequests =>
    \A session_id \in SessionIdInputs :
        Names(session_id) =>
            \A session \in {Row(UUID(session_id))} :
                /\ \A request \in UpdateRequests :
                      request.status \in {"active", "completed", "failed"} =>
                          \A table \in {update_session(session_id, request, TRUE).a2a_sessions} :
                              RowIn(table, session.session_id).context
                                 = IF request.context = None
                                   THEN session.context
                                   ELSE request.context[1]
                /\ \A commit_ok \in BOOLEAN :
                      \A table \in {terminate_session(session_id, commit_ok).a2a_sessions} :
                          RowIn(table, session.session_id).context = session.context

\* a session created with the context {k: 1} has been updated to the empty one
C9_Witness ==
    /\ response.op = "update"
    /\ response.code = 200
    /\ Row(response.target).task = <<"T", "R">>
    /\ Row(response.target).context = {}

\* C10: updateSession on an existing session with a status outside
\* {active, completed, failed} returns 400 and changes no session.
C10_InvalidStatusRejected ==
    \A session_id \in SessionIdInputs :
        Names(session_id) =>
            \A request \in WithStatus("terminated") \cup WithStatus("paused"),
               commit_ok \in BOOLEAN :
                LET outcome == update_session(session_id, request, commit_ok)
                IN  /\ outcome.response.code = 400
                    /\ outcome.response.detail = "status"
                    /\ outcome.a2a_sessions = a2a_sessions

\* an update of an existing, already updated session was rejected for its status
C10_Witness ==
    /\ response.op = "update"
    /\ response.code = 400
    /\ response.detail = "status"
    /\ Names(str(response.target))
    /\ Row(response.target).status = "COMPLETED"
    /\ Row(response.target).context = {<<"k", 1>>}

\* the outcomes of the three handlers that take a session id
ById(session_id) ==
    {get_session_status(session_id)}
    \cup {terminate_session(session_id, commit_ok) : commit_ok \in BOOLEAN}
    \cup {update_session(session_id, request, commit_ok) :
             request \in UpdateRequests, commit_ok \in BOOLEAN}

\* C11: get, updateSession and terminateSession answer 400 (invalid format)
\* for an id that does not parse and 404 for one that parses and names no
\* stored session; in both cases the session table is left as it was.
C11_MalformedAndAbsentIds ==
    \A session_id \in SessionIdInputs :
        ~Names(session_id) =>
            \A outcome \in ById(session_id) :
                /\ outcome.a2a_sessions = a2a_sessions
                /\ outcome.response.code =
                      IF UUID(session_id) = ValueError THEN 400 ELSE 404
                /\ UUID(session_id) = ValueError
                      => outcome.response.detail = "format"

\* with a session stored, a get of an id that does not parse was refused
\* after an update of a well-formed id that names no session
C11_Witness ==
    /\ a2a_sessions # <<>>
    /\ response.op = "status"
    /\ response.code = 400
    /\ response.detail = "format"
    /\ \E session_id \in SessionIdInputs :
          /\ UUID(session_id) # ValueError
          /\ ~Names(session_id)
          /\ update_session(session_id, [status |-> "failed", context |-> None],
                            TRUE).response.code = 404

\* C12: an initiateSession that succeeds appends one session to the table
\* and leaves the others as they were; the new session is ACTIVE, has the id
\* the response returns, created_at equal to updated_at, and the request's
\* initiating agent, target agent, task and context.
C12_InitiateAddsOneSession ==
    \A request \in InitiateRequests, session_id \in Uuids, commit_ok \in BOOLEAN :
        \A outcome \in {initiate_a2a_session(request, session_id, commit_ok)} :
            outcome.response.code = 200 =>
                /\ Len(outcome.a2a_sessions) = Len(a2a_sessions) + 1
                /\ SubSeq(outcome.a2a_sessions, 1, Len(a2a_sessions)) = a2a_sessions
                /\ \A session \in {outcome.a2a_sessions[Len(a2a_sessions) + 1]} :
                      /\ session.status = "ACTIVE"
                      /\ session.created_at = session.updated_at
                      /\ session.created_at = now
                      /\ session.initiating_agent = request.initiating_agent_name
                      /\ session.target_agent = request.target_agent_name
                      /\ session.task = request.task
                      /\ session.context = request.context
                      /\ str(session.session_id) = outcome.response.session_id
                      /\ outcome.response.status = "active"

\* a second session has been created, later, next to one that is FAILED
C12_Witness ==
    /\ response.op = "initiate"
    /\ response.code = 200
    /\ Len(a2a_sessions) = 2
    /\ a2a_sessions[1].status = "FAILED"
    /\ a2a_sessions[2].status = "ACTIVE"
    /\ a2a_sessions[2].task = <<"T", "R">>
    /\ a2a_sessions[2].created_at = 1
    /\ a2a_sessions[2].updated_at = 1

\* C15: when the commit fails, initiateSession, updateSession and
\* terminateSession answer 500 and leave the session table as it was; an
\* initiateSession whose INSERT meets a stored primary key fails in the same way.
C15_FailedWriteLeavesStore ==
    /\ \A request \in InitiateRequests, session_id \in Uuids, commit_ok \in BOOLEAN :
          \A outcome \in {initiate_a2a_session(request, session_id, commit_ok)} :
              ( /\ outcome.response.code \notin {400, 404}
                /\ ~commit_ok \/ Names(str(session_id)) )
              => /\ outcome.response.code = 500
                 /\ outcome.a2a_sessions = a2a_sessions
    /\ \A session_id \in SessionIdInputs :
          Names(session_id) =>
              /\ \A outcome \in {terminate_session(session_id, FALSE)} :
                    /\ outcome.response.code = 500
                    /\ outcome.a2a_sessions = a2a_sessions
              /\ \A request \in UpdateRequests :
                    request.status \in {"active", "completed", "failed"} =>
                        \A outcome \in {update_session(session_id, request, FALSE)} :
                            /\ outcome.response.code = 500
                            /\ outcome.a2a_sessions = a2a_sessions

\* an updateSession of a COMPLETED session has failed in the store
C15_Witness ==
    /\ response.op = "update"
    /\ response.code = 500
    /\ response.prior_status = "COMPLETED"
    /\ Row(response.target).status = "COMPLETED"
    /\ Row(response.target).context = {}
    /\ Row(response.target).updated_at = 0
    /\ now = 1

\* the directory holds an active agent of that name
ActiveInDirectory(name) ==
    \E i \in DOMAIN agents : agents[i].agent_name = name /\ agents[i].active

\* C13: an initiateSession whose initiating agent or target agent is not in
\* the directory or is inactive answers 404, naming the initiating agent
\* when it is at fault and the target agent otherwise, and leaves the
\* session table as it was.
C13_InitiateAgentNotFound ==
    [][( /\ nreq' = nreq + 1
         /\ response'.op = "initiate"
         /\ \/ ~ActiveInDirectory(response'.request.initiating_agent_name)
            \/ ~ActiveInDirectory(response'.request.target_agent_name) )
       => /\ response'.code = 404
          /\ response'.detail =
                IF ~ActiveInDirectory(response'.request.initiating_agent_name)
                THEN "initiating" ELSE "target"
          /\ a2a_sessions' = a2a_sessions]_vars

\* an initiation whose initiating agent is inactive and whose target agent
\* is not registered was refused, naming the initiating agent
C13_Witness ==
    /\ response.op = "initiate"
    /\ response.code = 404
    /\ response.detail = "initiating"
    /\ response.request.initiating_agent_name = AgentNames[1]
    /\ response.request.target_agent_name = Unregistered
    /\ Len(agents) = 2
    /\ ~agents[1].active

\* t is a substring of s when letter case is ignored
ContainsIgnoringCase(t, s) ==
    \E offset \in 0..(Len(s) - Len(t)) :
        \A k \in 1..Len(t) : LowerChar(s[offset + k]) = LowerChar(t[k])

\* the supported_tasks of the active agent of that name
SupportedTasksOf(name) ==
    agents[CHOOSE i \in DOMAIN agents :
              agents[i].agent_name = name /\ agents[i].active]
        .agent_metadata.a2a.supported_tasks

\* C14: an initiateSession between two active agents answers 400 exactly
\* when no supported task of the target agent contains the requested task
\* as a substring, letter case ignored; it then leaves the session table as
\* it was.
C14_InitiateUnsupportedTask ==
    [][( /\ nreq' = nreq + 1
         /\ response'.op = "initiate"
         /\ ActiveInDirectory(response'.request.initiating_agent_name)
         /\ ActiveInDirectory(response'.request.target_agent_name) )
       => /\ response'.code = 400
             <=> ~\E k \in DOMAIN SupportedTasksOf(response'.request.target_agent_name) :
                    ContainsIgnoringCase(
                        response'.request.task,
                        SupportedTasksOf(response'.request.target_agent_name)[k])
          /\ response'.code = 400 => a2a_sessions' = a2a_sessions]_vars

\* with a session stored, an initiation for a task that the target agent
\* supports only with its letters apart was refused
C14_Witness ==
    /\ response.op = "initiate"
    /\ response.code = 400
    /\ response.request.task = <<"T", "R">>
    /\ agents[2].agent_metadata.a2a.supported_tasks = TasksWithoutTr
    /\ Len(a2a_sessions) = 1
    /\ a2a_sessions[1].task = <<>>

-----------------------------------------------------------------------------
(* Properties of negotiate_task. *)

\* a negotiation has been answered with success
Negotiated == response.op = "negotiate" /\ response.code = 200

\* the agent is active, is not the initiating agent, and one of its
\* supported tasks holds the requested task, letter case ignored
Qualifies(agent, request) ==
    /\ agent.active
    /\ agent.agent_name # request.initiating_agent_name
    /\ \E k \in DOMAIN agent.agent_metadata.a2a.supported_tasks :
          ContainsIgnoringCase(request.requested_task,
                               agent.agent_metadata.a2a.supported_tasks[k])

\* the row of the agent of that name, and its place in the directory
PlaceOf(name) == CHOOSE i \in DOMAIN agents : agents[i].agent_name = name
AgentOf(name) == agents[PlaceOf(name)]

\* C16: the candidates that negotiate_task collects are, each once, the
\* agents that are active, are not the initiating agent and support the
\* requested task as a substring of a supported task, letter case ignored;
\* every agent it returns is one of them.
C16_CandidatesQualify ==
    Negotiated =>
        \A found \in {candidates(response.request)} :
            \A qualified \in {{j \in DOMAIN agents :
                                  Qualifies(agents[j], response.request)}} :
                /\ { found[i].agentName : i \in DOMAIN found }
                      = { agents[j].agent_name : j \in qualified }
                /\ Len(found) = Cardinality(qualified)
                /\ \A i \in DOMAIN response.candidateAgents :
                      PlaceOf(response.candidateAgents[i].agentName) \in qualified

\* a negotiation for "TR" by an agent that supports it itself, against a
\* directory with an inactive agent, has returned candidates
C16_Witness ==
    /\ Negotiated
    /\ response.request.requested_task = <<"T", "R">>
    /\ response.candidateAgents # <<>>
    /\ agents[1].agent_metadata.a2a.supported_tasks = TasksWithTr
    /\ \E i \in DOMAIN agents : ~agents[i].active
    /\ Len(response.candidateAgents) < Len(agents) - 2

\* the score, in tenths, that the scoring rule gives the agent
ScoreOf(agent, preferred) ==
    LET asked == <<"negotiation", TRUE>> \in preferred
        budget == IF \E pair \in preferred : pair[1] = "token_budget"
                  THEN (CHOOSE pair \in preferred : pair[1] = "token_budget")[2]
                  ELSE 0
        sum == 8 + (IF asked /\ agent.agent_metadata.a2a.negotiation THEN 1 ELSE 0)
                 + (IF agent.agent_metadata.a2a.token_budget >= budget THEN 1 ELSE 0)
    IN  IF sum > 10 THEN 10 ELSE sum

\* C17: the matchScore of every returned candidate is 0.8, plus 0.1 when
\* negotiation is preferred and the agent negotiates, plus 0.1 when the
\* agent's token budget is at least the preferred one (0 when none is
\* given), at most 1.0: it is 0.8, 0.9 or 1.0; a negotiating agent with budget
\* 500 scores 1.0 against {negotiation: true, token_budget: 100}.
C17_MatchScore ==
    Negotiated =>
        \A i \in DOMAIN response.candidateAgents :
            \A candidate \in {response.candidateAgents[i]} :
                /\ candidate.matchScore
                      = ScoreOf(AgentOf(candidate.agentName),
                                response.request.preferred_capabilities)
                /\ candidate.matchScore \in {8, 9, 10}
                /\ ( /\ candidate.negotiation
                     /\ candidate.tokenBudget = 500
                     /\ response.request.preferred_capabilities
                           = {<<"negotiation", TRUE>>, <<"token_budget", 100>>} )
                   => candidate.matchScore = 10

\* against {negotiation: true, token_budget: 100} a negotiating agent with
\* budget 500 scored 1.0 and an agent with neither scored 0.8
C17_Witness ==
    /\ Negotiated
    /\ response.request.preferred_capabilities
          = {<<"negotiation", TRUE>>, <<"token_budget", 100>>}
    /\ \E i, j \in DOMAIN response.candidateAgents :
          /\ response.candidateAgents[i].matchScore = 10
          /\ response.candidateAgents[i].negotiation
          /\ response.candidateAgents[i].tokenBudget = 500
          /\ response.candidateAgents[j].matchScore = 8

\* C18: the returned candidates are in non-increasing order of matchScore,
\* those of equal score in the order of the directory; they are at most 10,
\* and no candidate that was left out has a higher score than a returned one.
C18_SortedTopTen ==
    Negotiated =>
        /\ Len(response.candidateAgents) <= 10
        /\ \A i, j \in DOMAIN response.candidateAgents :
              i < j =>
                 /\ response.candidateAgents[i].matchScore
                       >= response.candidateAgents[j].matchScore
                 /\ response.candidateAgents[i].matchScore
                       = response.candidateAgents[j].matchScore
                    => PlaceOf(response.candidateAgents[i].agentName)
                          < PlaceOf(response.candidateAgents[j].agentName)
        /\ \A found \in {candidates(response.request)} :
              \A k \in DOMAIN found :
                  (\A i \in DOMAIN response.candidateAgents :
                      response.candidateAgents[i].agentName # found[k].agentName)
                  => \A i \in DOMAIN response.candidateAgents :
                        found[k].matchScore <= response.candidateAgents[i].matchScore

\* of eleven candidates the last of the directory, the only one that scores
\* 1.0, was returned first and a candidate scoring 0.9 was left out
C18_Witness ==
    /\ Negotiated
    /\ Len(candidates(response.request)) = 11
    /\ Len(response.candidateAgents) = 10
    /\ response.candidateAgents[1].agentName = agents[Len(agents)].agent_name
    /\ response.candidateAgents[1].matchScore = 10
    /\ response.candidateAgents[2].matchScore = 9
    /\ response.candidateAgents[10].matchScore = 9

\* C19: negotiate answers 404 when the initiating agent is not an active
\* agent of the directory and 200 otherwise, with the empty sequence when no
\* agent qualifies.
C19_NegotiateNotFoundOrSuccess ==
    response.op = "negotiate" =>
        /\ response.code =
              IF ActiveInDirectory(response.request.initiating_agent_name)
              THEN 200 ELSE 404
        /\ response.code = 404 => response.detail = "initiating"
        /\ ( /\ response.code = 200
             /\ \A i \in DOMAIN agents : ~Qualifies(agents[i], response.request) )
           => response.candidateAgents = <<>>

\* a negotiation against a directory of other active agents, none of which
\* supports the task, was answered with the empty sequence
C19_Witness ==
    /\ Negotiated
    /\ response.candidateAgents = <<>>
    /\ Len(agents) > MaxFill
    /\ \A i \in DOMAIN agents : agents[i].active

\* C20: a negotiation, answered with success or not, leaves the agent
\* directory and the session table as they were.
C20_NegotiateChangesNothing ==
    [][response'.op = "negotiate"
       => /\ agents' = agents
          /\ a2a_sessions' = a2a_sessions]_vars

\* a negotiation was refused while agents are registered and a session is
\* stored
C20_Witness ==
    /\ response.op = "negotiate"
    /\ response.code = 404
    /\ Len(agents) > MaxFill
    /\ a2a_sessions = StoredSessions

-----------------------------------------------------------------------------
(* Properties of list_sessions. *)

\* the filter was given, with a text that is not empty
Supplied(parameter) == parameter # None /\ parameter[1] # ""

\* the rows of the table that satisfy every supplied filter of the request
Matching(table, request) ==
    {i \in DOMAIN table :
        /\ Supplied(request.initiating_agent)
              => table[i].initiating_agent = request.initiating_agent[1]
        /\ Supplied(request.target_agent)
              => table[i].target_agent = request.target_agent[1]
        /\ Supplied(request.status_filter)
              => value(table[i].status) = request.status_filter[1]}

\* the rows of the table that the entries of the answer show
Shown(table, r) ==
    {i \in DOMAIN table :
        \E k \in DOMAIN r.sessions : r.sessions[k].session_id = str(table[i].session_id)}

\* the answer r to a listing of the table is a page of the matching rows
IsPage(table, r) ==
    \A matching \in {Matching(table, r.request)} :
      \A shown \in {Shown(table, r)} :
        /\ shown \subseteq matching
        /\ Cardinality(shown) = Len(r.sessions)
        /\ \A k \in DOMAIN r.sessions :
              \E i \in shown :
                 /\ r.sessions[k] = [session_id |-> str(table[i].session_id),
                                     initiating_agent |-> table[i].initiating_agent,
                                     target_agent |-> table[i].target_agent,
                                     task |-> table[i].task,
                                     status |-> value(table[i].status),
                                     created_at |-> isoformat(table[i].created_at),
                                     updated_at |-> isoformat(table[i].updated_at)]
                 /\ \A l \in DOMAIN r.sessions :
                       k < l =>
                          \E j \in shown :
                             /\ r.sessions[l].session_id = str(table[j].session_id)
                             /\ table[i].created_at >= table[j].created_at
        /\ Len(r.sessions) =
              IF Cardinality(matching) <= r.request.offset THEN 0
              ELSE IF Cardinality(matching) - r.request.offset < r.request.limit
              THEN Cardinality(matching) - r.request.offset
              ELSE r.request.limit
        /\ \E skipped \in SUBSET (matching \ shown) :
              /\ Cardinality(skipped) =
                    IF Cardinality(matching) < r.request.offset
                    THEN Cardinality(matching) ELSE r.request.offset
              /\ \A i \in skipped, j \in shown :
                    table[i].created_at >= table[j].created_at
              /\ \A i \in (matching \ shown) \ skipped, j \in shown :
                    table[i].created_at <= table[j].created_at

C22_InvalidStatusFilterRejected ==
    ( /\ response.op = "list"
      /\ response.request.status_filter # None
      /\ \A member \in SessionStatusMembers :
            value(member) # response.request.status_filter[1] )
    => response.code = 400

-----------------------------------------------------------------------------
(* Properties of the session token and of updated_at. *)

\* the session tokens in the store
StoredTokens == {a2a_sessions[i].session_token : i \in DOMAIN a2a_sessions}

\* C23: the token of a session is in the response of the initiation that
\* created it only: no response of get status, update or terminate and no
\* entry of a listing holds the token of a stored session.
C23_TokenOnlyAtCreation ==
    /\ response.op \in {"status", "update", "terminate"}
          => /\ response.sessionToken = ""
             /\ StoredTokens \cap {response.session_id, response.status,
                                   response.detail} = {}
    /\ \A order \in order_by_created_at_desc(filtered(DefaultListRequest)) :
          \A r \in {list_sessions(DefaultListRequest, order).response} :
              \A k \in DOMAIN r.sessions :
                  /\ "session_token" \notin DOMAIN r.sessions[k]
                  /\ StoredTokens
                        \cap {r.sessions[k].session_id, r.sessions[k].initiating_agent,
                              r.sessions[k].target_agent, r.sessions[k].status,
                              r.sessions[k].created_at, r.sessions[k].updated_at} = {}
    /\ response.op = "initiate" /\ response.code = 200
          => response.sessionToken = session_token(UUID(response.session_id))

\* the status of a session was read after its initiation returned its token
C23_Witness ==
    /\ response.op = "status"
    /\ response.code = 200
    /\ \E i \in DOMAIN issued :
          /\ issued[i][1] = response.session_id
          /\ issued[i][2] \in StoredTokens
    /\ Len(list_sessions(DefaultListRequest,
                         CHOOSE order \in order_by_created_at_desc(
                                             filtered(DefaultListRequest)) : TRUE
                        ).response.sessions) = Len(a2a_sessions)

\* C26: updated_at is set when a session is created and set again by every
\* update and terminate that succeeds, also when the status stays the same;
\* it is never earlier than created_at and never goes back.
C26_UpdatedAtRefreshed ==
    [][\A u \in Uuids :
          /\ (find_session(u) = 0 /\ \E i \in DOMAIN a2a_sessions' :
                                        a2a_sessions'[i].session_id = u)
                => /\ RowIn(a2a_sessions', u).created_at = now
                   /\ RowIn(a2a_sessions', u).updated_at = now
          /\ find_session(u) # 0
                => /\ \E i \in DOMAIN a2a_sessions' : a2a_sessions'[i].session_id = u
                   /\ RowIn(a2a_sessions', u).updated_at >= Row(u).updated_at
                   /\ RowIn(a2a_sessions', u).updated_at
                         >= RowIn(a2a_sessions', u).created_at
                   /\ RowIn(a2a_sessions', u).created_at = Row(u).created_at
          /\ ( /\ response'.op \in {"update", "terminate"}
               /\ response'.code = 200
               /\ response'.target = u
               /\ nreq' # nreq )
                => RowIn(a2a_sessions', u).updated_at = now
      ]_vars

\* a session that had failed earlier was terminated and took the later time
C26_Witness ==
    /\ response.op = "terminate"
    /\ response.code = 200
    /\ response.prior_status = "FAILED"
    /\ RowIn(a2a_sessions, response.target).updated_at = now
    /\ RowIn(a2a_sessions, response.target).created_at < now

-----------------------------------------------------------------------------
(* Properties of the registration app of src/main.py. *)

\* the agents stored with the name and version of the request body
SameNameAndVersion(db, agent_data) ==
    {agent_id \in DOMAIN db :
        db[agent_id].name = agent_data.name /\ db[agent_id].version = agent_data.version}

\* C25: in src/main.py a registration with the name and version of a stored
\* agent is answered 409 and leaves agent_db_internal as it was; any other
\* valid registration stores the agent under the agent_id it returns and
\* leaves the other entries alone; no two stored agents have the same name
\* and version.
C25_MainRegisterUniqueNameVersion ==
    [][(response'.op = "main_register" /\ nreq' # nreq)
       => /\ (valid_agent_data(response'.request)
              /\ SameNameAndVersion(agent_db_internal, response'.request) # {})
                => /\ response'.code = 409
                   /\ agent_db_internal' = agent_db_internal
          /\ (valid_agent_data(response'.request)
              /\ SameNameAndVersion(agent_db_internal, response'.request) = {})
                => /\ response'.code = 201
                   /\ DOMAIN agent_db_internal'
                         = DOMAIN agent_db_internal \cup {response'.target}
                   /\ agent_db_internal'[response'.target].agent_id = response'.target
                   /\ agent_db_internal'[response'.target].name = response'.request.name
                   /\ agent_db_internal'[response'.target].version
                         = response'.request.version
                   /\ \A agent_id \in DOMAIN agent_db_internal \ {response'.target} :
                         agent_db_internal'[agent_id] = agent_db_internal[agent_id]
          /\ \A i, j \in DOMAIN agent_db_internal' :
                i # j => \/ agent_db_internal'[i].name # agent_db_internal'[j].name
                         \/ agent_db_internal'[i].version # agent_db_internal'[j].version
      ]_vars

\* with two versions of an agent stored, one of them was registered again
\* and refused
C25_Witness ==
    /\ response.op = "main_register"
    /\ response.code = 409
    /\ Cardinality(DOMAIN agent_db_internal) = 2
    /\ \A agent_id \in DOMAIN agent_db_internal :
          agent_db_internal[agent_id].name = response.request.name
    /\ \E agent_id \in DOMAIN agent_db_internal :
          agent_db_internal[agent_id].version # response.request.version

-----------------------------------------------------------------------------
(* Properties of the rate limiter. *)

\* C27: a request of an identifier that has made fewer than `limit` requests
\* in the window is not answered 429.
C27_FirstRequestsAdmitted ==
    (response.op = "rate" /\ response.before < response.rate_info.limit)
    => response.code # 429

\* the recorded times of the list that lie in the window that ends at t
InWindow(recorded, t) ==
    {i \in DOMAIN recorded : recorded[i] > t - Window /\ recorded[i] <= t}

\* C28: the rate limiter holds at most `limit` recorded times of an
\* identifier within any window, also when calls for the identifier overlap;
\* a call that is denied records nothing, and a call changes the recorded
\* times of its own identifier only.
C28_RecordedWithinLimit ==
    [][/\ \A identifier \in Identifiers, t \in 0..MaxTime :
             Cardinality(InWindow(requests'[identifier], t)) <= MaxLimit
       /\ (\E task \in Tasks : coroutines[task].pc = "lock" /\ coroutines'[task] = NoCall)
          => /\ response'.before >= MaxLimit
                => /\ response'.rate_info.requests_remaining = 0
                   /\ requests'[response'.identifier]
                         = clean(requests[response'.identifier],
                                 response'.at - Window)
                   /\ Len(requests'[response'.identifier])
                         <= Len(requests[response'.identifier])
             /\ \A identifier \in Identifiers \ {response'.identifier} :
                   requests'[identifier] = requests[identifier]
      ]_vars

\* of two calls for one identifier that overlapped, the later was denied
\* with the limit recorded, while the other identifier has a recorded request
C28_Witness ==
    /\ response.op = "rate"
    /\ response.overlapped
    /\ response.before = MaxLimit
    /\ response.rate_info.requests_remaining = 0
    /\ Len(requests[response.identifier]) = MaxLimit
    /\ \E identifier \in Identifiers \ {response.identifier} :
          requests[identifier] # <<>>

-----------------------------------------------------------------------------
(* Properties of the directory under several server processes. *)

\* the step answers a call of operation op
Answers(op) == response' # response /\ response'.op = op

\* a row of the table holds the name
NameIn(table, agent_name) ==
    \E i \in DOMAIN table : table[i].agent_name = agent_name

\* the directory holds the name in a row that is not active
Deactivated(agent_name) ==
    \E i \in DOMAIN agents :
        agents[i].agent_name = agent_name /\ ~agents[i].active

\* C24: no two rows of the directory hold the same agent_name; a
\* registration whose name is in the directory when its INSERT reaches the
\* store, in an active or a deactivated row, leaves the directory as it was
\* and is answered 409 (500 when the store fails), also when the name was
\* free at the time the registration began.
C24_AgentNameUnique ==
    [][/\ \A i, j \in DOMAIN agents' :
              agents'[i].agent_name = agents'[j].agent_name => i = j
       /\ (Answers("register") /\ NameIn(agents, response'.request.agent_name))
              => /\ agents' = agents
                 /\ response'.code = IF response'.commit_ok THEN 409 ELSE 500]_vars

\* of two registrations of one name that overlapped, the second is answered
\* 409 after the agent the first one registered was deactivated
C24_Witness ==
    /\ response.op = "register"
    /\ response.code = 409
    /\ response.request.free
    /\ Deactivated(response.request.agent_name)
    /\ Len(agents) = Len(RegisteredAgents) + 1

\* C29: a row that is not active stays as it is in every step; a deactivation
\* leaves the sessions as they are; a negotiation in the name of a
\* deactivated agent is answered 404 and a negotiation lists no deactivated
\* agent; an initiation that names a deactivated agent as initiator or
\* target is answered 404 at its lookups and stores no session.
C29_DeactivationPermanent ==
    [][/\ \A i \in DOMAIN agents :
              ~agents[i].active => i \in DOMAIN agents' /\ agents'[i] = agents[i]
       /\ Answers("deactivate") => a2a_sessions' = a2a_sessions
       /\ Answers("negotiate")
              => /\ Deactivated(response'.request.initiating_agent_name)
                        => response'.code = 404
                 /\ response'.code = 200
                        => \A k \in DOMAIN response'.candidateAgents :
                               ~Deactivated(response'.candidateAgents[k].agentName)
       /\ \A w \in Workers :
              (txn[w] = Idle /\ txn'[w] # Idle /\ txn'[w].op = "initiate")
                  => /\ ~Deactivated(txn'[w].request.initiating_agent_name)
                     /\ ~Deactivated(txn'[w].request.target_agent_name)
       /\ (/\ Answers("initiate")
           /\ nreq' # nreq
           /\ \/ Deactivated(response'.request.initiating_agent_name)
              \/ Deactivated(response'.request.target_agent_name))
              => /\ response'.code = 404
                 /\ a2a_sessions' = a2a_sessions]_vars

\* an initiation is answered 404 because its target was deactivated, while
\* an active session with that target is in the store
C29_Witness ==
    /\ response.op = "initiate"
    /\ response.code = 404
    /\ Deactivated(response.request.target_agent_name)
    /\ \E i \in DOMAIN a2a_sessions :
           /\ a2a_sessions[i].target_agent = response.request.target_agent_name
           /\ a2a_sessions[i].status = "ACTIVE"

\* C30: a step stores a session only if the agents it names are active in
\* the directory at that step.
C30_NoSessionForInactiveAgent ==
    [][\A i \in DOMAIN a2a_sessions' \ DOMAIN a2a_sessions :
           /\ active_agent(a2a_sessions'[i].initiating_agent) # 0
           /\ active_agent(a2a_sessions'[i].target_agent) # 0]_vars

-----------------------------------------------------------------------------
(* Properties of overlapping calls. *)

\* the call applied on its own to the row
ApplyCall(session, call) ==
    [session EXCEPT
        !.status = call.dirty.status,
        !.context = IF call.sets_context THEN call.dirty.context ELSE @,
        !.updated_at = call.dirty.updated_at]

RECURSIVE SerialResults(_, _)
\* the rows that applying the calls one at a time, in some order, can give
SerialResults(session, calls) ==
    IF calls = {}
    THEN {session}
    ELSE UNION { SerialResults(ApplyCall(session, call), calls \ {call}) :
                    call \in calls }

\* C6: when the updateSession and terminateSession calls that overlapped on a
\* session have all committed, its status, context and updatedAt are those
\* that applying the calls one at a time in some order gives.
C6_OverlappingCallsSerialize ==
    \A u \in Uuids :
        ( /\ conc[u].calls # {}
          /\ \A w \in Workers : ~Pending(w, u) )
        => \E session \in SerialResults(conc[u].base, conc[u].calls) :
              /\ Row(u).status = session.status
              /\ Row(u).context = session.context
              /\ Row(u).updated_at = session.updated_at

====
